---- MODULE Spec2Model ----
\* A model of src/sequences/fibonacci.rs: the Fibonacci trait, its
\* implementations for the fixed-width integer types (tables), for isize and
\* usize (tables built by a const generator) and for rug::Integer (RugIter).
EXTENDS Integers, Sequences, FiniteSets, TLC

\* ---------------------------------------------------------------------------
\* Numbers.  The values of the program exceed the range of the model checker's
\* integers (u128 holds 39 decimal digits), so a natural number is a sequence
\* of limbs in base 2^16, least significant first, without leading zero limbs;
\* zero is the empty sequence.  An integer is a sign and a magnitude.
\* ---------------------------------------------------------------------------

Base == 2^16

NatZero == <<>>

NatOne == <<1>>

Limb(x, i) == IF i <= Len(x) THEN x[i] ELSE 0

RECURSIVE Trim(_)
Trim(x) == IF Len(x) > 0 /\ x[Len(x)] = 0 THEN Trim(SubSeq(x, 1, Len(x) - 1)) ELSE x

RECURSIVE AddFrom(_, _, _, _)
AddFrom(x, y, i, c) ==
  IF i > Len(x) /\ i > Len(y)
  THEN (IF c = 0 THEN <<>> ELSE <<c>>)
  ELSE LET s == Limb(x, i) + Limb(y, i) + c
       IN  <<s % Base>> \o AddFrom(x, y, i + 1, s \div Base)

NatAdd(x, y) == AddFrom(x, y, 1, 0)

RECURSIVE SubFrom(_, _, _, _)
SubFrom(x, y, i, br) ==
  IF i > Len(x)
  THEN <<>>
  ELSE LET s == Limb(x, i) - Limb(y, i) - br
       IN  IF s < 0
           THEN <<s + Base>> \o SubFrom(x, y, i + 1, 1)
           ELSE <<s>> \o SubFrom(x, y, i + 1, 0)

\* x - y for x >= y (the set of one element has the limbs computed once)
NatSub(x, y) == CHOOSE w \in {Trim(d) : d \in {SubFrom(x, y, 1, 0)}} : TRUE

RECURSIVE LessFrom(_, _, _)
LessFrom(x, y, i) ==
  IF i = 0 THEN FALSE
  ELSE IF x[i] # y[i] THEN x[i] < y[i]
  ELSE LessFrom(x, y, i - 1)

NatLess(x, y) ==
  IF Len(x) # Len(y) THEN Len(x) < Len(y) ELSE LessFrom(x, y, Len(x))

NatLeq(x, y) == ~NatLess(y, x)

RECURSIVE MulAddFrom(_, _, _, _)
MulAddFrom(x, m, i, c) ==
  IF i > Len(x)
  THEN (IF c = 0 THEN <<>> ELSE <<c>>)
  ELSE LET s == x[i] * m + c
       IN  <<s % Base>> \o MulAddFrom(x, m, i + 1, s \div Base)

\* x * m + c for small m and c
NatMulAdd(x, m, c) == MulAddFrom(x, m, 1, c)

\* The number written by the decimal digit groups g (three digits a group,
\* most significant group first), as a source literal is read.
RECURSIVE DecFrom(_, _, _)
DecFrom(g, i, acc) ==
  IF i > Len(g) THEN acc ELSE DecFrom(g, i + 1, NatMulAdd(acc, 1000, g[i]))

Lit(g) == DecFrom(g, 1, NatZero)

\* A small natural number of the model checker as a number, and back.
Nat2(k) == Trim(<<k % Base, k \div Base>>)

Small(x) == Limb(x, 1) + Base * Limb(x, 2)

\* 2^k
Pow2(k) == [i \in 1..(k \div 16) |-> 0] \o <<2^(k % 16)>>

\* x mod 2^bits, for bits a multiple of 16
NatLow(x, bits) ==
  Trim(SubSeq(x, 1, IF Len(x) < bits \div 16 THEN Len(x) ELSE bits \div 16))

NatOdd(x) == Limb(x, 1) % 2 = 1

\* Integers: neg is the sign, mag the magnitude (never neg with mag zero).
MkInt(neg, mag) == [neg |-> neg /\ mag # NatZero, mag |-> mag]

Pos(mag) == MkInt(FALSE, mag)

IntZero == Pos(NatZero)

IntNeg(x) == MkInt(~x.neg, x.mag)

IntLess(x, y) ==
  IF x.neg # y.neg THEN x.neg
  ELSE IF x.neg THEN NatLess(y.mag, x.mag)
  ELSE NatLess(x.mag, y.mag)

IntLeq(x, y) == ~IntLess(y, x)

IntAdd(x, y) ==
  IF x.neg = y.neg THEN MkInt(x.neg, NatAdd(x.mag, y.mag))
  ELSE IF NatLess(x.mag, y.mag) THEN MkInt(y.neg, NatSub(y.mag, x.mag))
  ELSE MkInt(x.neg, NatSub(x.mag, y.mag))

IntOfSmall(k) == IF k < 0 THEN MkInt(TRUE, Nat2(-k)) ELSE Pos(Nat2(k))

\* Option<T>: Some(v), None; a call can also end in a panic.
Some(v) == [kind |-> "Some", val |-> v]

None == [kind |-> "None", val |-> IntZero]

Panic == [kind |-> "Panic", val |-> IntZero]

\* ---------------------------------------------------------------------------
\* The tables of the fixed-width implementations.
\* ---------------------------------------------------------------------------

\* The literal array of the i8 implementation, fibonacci.rs lines 83-86.
\* Each literal is written as its decimal digits in groups of three.
ARRAY_i8 ==
  <<<<0>>, <<1>>, <<1>>, <<2>>, <<3>>, <<5>>, <<8>>, <<13>>, <<21>>, <<34>>, <<55>>, <<89>> >>

\* The literal array of the u8 implementation, fibonacci.rs lines 88-91.
\* Each literal is written as its decimal digits in groups of three.
ARRAY_u8 ==
  <<<<0>>, <<1>>, <<1>>, <<2>>, <<3>>, <<5>>, <<8>>, <<13>>, <<21>>, <<34>>, <<55>>, <<89>>,
    <<144>>, <<233>> >>

\* ARRAY_i16 with two digits of one literal exchanged (10946 written 10496).
ARRAY_i16_typo ==
  <<<<0>>, <<1>>, <<1>>, <<2>>, <<3>>, <<5>>, <<8>>, <<13>>, <<21>>, <<34>>, <<55>>, <<89>>,
    <<144>>, <<233>>, <<377>>, <<610>>, <<987>>, <<1, 597>>, <<2, 584>>, <<4, 181>>, <<6, 765>>,
    <<10, 496>>, <<17, 711>>, <<28, 657>> >>

\* The literal array of the i16 implementation, fibonacci.rs lines 93-99.
\* Each literal is written as its decimal digits in groups of three.
ARRAY_i16 ==
  <<<<0>>, <<1>>, <<1>>, <<2>>, <<3>>, <<5>>, <<8>>, <<13>>, <<21>>, <<34>>, <<55>>, <<89>>,
    <<144>>, <<233>>, <<377>>, <<610>>, <<987>>, <<1, 597>>, <<2, 584>>, <<4, 181>>, <<6, 765>>,
    <<10, 946>>, <<17, 711>>, <<28, 657>> >>

\* The literal array of the u16 implementation, fibonacci.rs lines 101-107.
\* Each literal is written as its decimal digits in groups of three.
ARRAY_u16 ==
  <<<<0>>, <<1>>, <<1>>, <<2>>, <<3>>, <<5>>, <<8>>, <<13>>, <<21>>, <<34>>, <<55>>, <<89>>,
    <<144>>, <<233>>, <<377>>, <<610>>, <<987>>, <<1, 597>>, <<2, 584>>, <<4, 181>>, <<6, 765>>,
    <<10, 946>>, <<17, 711>>, <<28, 657>>, <<46, 368>> >>

\* The literal array of the i32 implementation, fibonacci.rs lines 109-117.
\* Each literal is written as its decimal digits in groups of three.
ARRAY_i32 ==
  <<<<0>>, <<1>>, <<1>>, <<2>>, <<3>>, <<5>>, <<8>>, <<13>>, <<21>>, <<34>>, <<55>>, <<89>>,
    <<144>>, <<233>>, <<377>>, <<610>>, <<987>>, <<1, 597>>, <<2, 584>>, <<4, 181>>, <<6, 765>>,
    <<10, 946>>, <<17, 711>>, <<28, 657>>, <<46, 368>>, <<75, 025>>, <<121, 393>>, <<196, 418>>,
    <<317, 811>>, <<514, 229>>, <<832, 040>>, <<1, 346, 269>>, <<2, 178, 309>>, <<3, 524, 578>>,
    <<5, 702, 887>>, <<9, 227, 465>>, <<14, 930, 352>>, <<24, 157, 817>>, <<39, 088, 169>>,
    <<63, 245, 986>>, <<102, 334, 155>>, <<165, 580, 141>>, <<267, 914, 296>>,
    <<433, 494, 437>>, <<701, 408, 733>>, <<1, 134, 903, 170>>, <<1, 836, 311, 903>> >>

\* The literal array of the u32 implementation, fibonacci.rs lines 119-127.
\* Each literal is written as its decimal digits in groups of three.
ARRAY_u32 ==
  <<<<0>>, <<1>>, <<1>>, <<2>>, <<3>>, <<5>>, <<8>>, <<13>>, <<21>>, <<34>>, <<55>>, <<89>>,
    <<144>>, <<233>>, <<377>>, <<610>>, <<987>>, <<1, 597>>, <<2, 584>>, <<4, 181>>, <<6, 765>>,
    <<10, 946>>, <<17, 711>>, <<28, 657>>, <<46, 368>>, <<75, 025>>, <<121, 393>>, <<196, 418>>,
    <<317, 811>>, <<514, 229>>, <<832, 040>>, <<1, 346, 269>>, <<2, 178, 309>>, <<3, 524, 578>>,
    <<5, 702, 887>>, <<9, 227, 465>>, <<14, 930, 352>>, <<24, 157, 817>>, <<39, 088, 169>>,
    <<63, 245, 986>>, <<102, 334, 155>>, <<165, 580, 141>>, <<267, 914, 296>>,
    <<433, 494, 437>>, <<701, 408, 733>>, <<1, 134, 903, 170>>, <<1, 836, 311, 903>>,
    <<2, 971, 215, 073>> >>

\* The literal array of the i64 implementation, fibonacci.rs lines 129-226.
\* Each literal is written as its decimal digits in groups of three.
ARRAY_i64 ==
  <<<<0>>, <<1>>, <<1>>, <<2>>, <<3>>, <<5>>, <<8>>, <<13>>, <<21>>, <<34>>, <<55>>, <<89>>,
    <<144>>, <<233>>, <<377>>, <<610>>, <<987>>, <<1, 597>>, <<2, 584>>, <<4, 181>>, <<6, 765>>,
    <<10, 946>>, <<17, 711>>, <<28, 657>>, <<46, 368>>, <<75, 025>>, <<121, 393>>, <<196, 418>>,
    <<317, 811>>, <<514, 229>>, <<832, 040>>, <<1, 346, 269>>, <<2, 178, 309>>, <<3, 524, 578>>,
    <<5, 702, 887>>, <<9, 227, 465>>, <<14, 930, 352>>, <<24, 157, 817>>, <<39, 088, 169>>,
    <<63, 245, 986>>, <<102, 334, 155>>, <<165, 580, 141>>, <<267, 914, 296>>,
    <<433, 494, 437>>, <<701, 408, 733>>, <<1, 134, 903, 170>>, <<1, 836, 311, 903>>,
    <<2, 971, 215, 073>>, <<4, 807, 526, 976>>, <<7, 778, 742, 049>>, <<12, 586, 269, 025>>,
    <<20, 365, 011, 074>>, <<32, 951, 280, 099>>, <<53, 316, 291, 173>>, <<86, 267, 571, 272>>,
    <<139, 583, 862, 445>>, <<225, 851, 433, 717>>, <<365, 435, 296, 162>>,
    <<591, 286, 729, 879>>, <<956, 722, 026, 041>>, <<1, 548, 008, 755, 920>>,
    <<2, 504, 730, 781, 961>>, <<4, 052, 739, 537, 881>>, <<6, 557, 470, 319, 842>>,
    <<10, 610, 209, 857, 723>>, <<17, 167, 680, 177, 565>>, <<27, 777, 890, 035, 288>>,
    <<44, 945, 570, 212, 853>>, <<72, 723, 460, 248, 141>>, <<117, 669, 030, 460, 994>>,
    <<190, 392, 490, 709, 135>>, <<308, 061, 521, 170, 129>>, <<498, 454, 011, 879, 264>>,
    <<806, 515, 533, 049, 393>>, <<1, 304, 969, 544, 928, 657>>, <<2, 111, 485, 077, 978, 050>>,
    <<3, 416, 454, 622, 906, 707>>, <<5, 527, 939, 700, 884, 757>>,
    <<8, 944, 394, 323, 791, 464>>, <<14, 472, 334, 024, 676, 221>>,
    <<23, 416, 728, 348, 467, 685>>, <<37, 889, 062, 373, 143, 906>>,
    <<61, 305, 790, 721, 611, 591>>, <<99, 194, 853, 094, 755, 497>>,
    <<160, 500, 643, 816, 367, 088>>, <<259, 695, 496, 911, 122, 585>>,
    <<420, 196, 140, 727, 489, 673>>, <<679, 891, 637, 638, 612, 258>>,
    <<1, 100, 087, 778, 366, 101, 931>>, <<1, 779, 979, 416, 004, 714, 189>>,
    <<2, 880, 067, 194, 370, 816, 120>>, <<4, 660, 046, 610, 375, 530, 309>>,
    <<7, 540, 113, 804, 746, 346, 429>> >>

\* The literal array of the u64 implementation, fibonacci.rs lines 228-326.
\* Each literal is written as its decimal digits in groups of three.
ARRAY_u64 ==
  <<<<0>>, <<1>>, <<1>>, <<2>>, <<3>>, <<5>>, <<8>>, <<13>>, <<21>>, <<34>>, <<55>>, <<89>>,
    <<144>>, <<233>>, <<377>>, <<610>>, <<987>>, <<1, 597>>, <<2, 584>>, <<4, 181>>, <<6, 765>>,
    <<10, 946>>, <<17, 711>>, <<28, 657>>, <<46, 368>>, <<75, 025>>, <<121, 393>>, <<196, 418>>,
    <<317, 811>>, <<514, 229>>, <<832, 040>>, <<1, 346, 269>>, <<2, 178, 309>>, <<3, 524, 578>>,
    <<5, 702, 887>>, <<9, 227, 465>>, <<14, 930, 352>>, <<24, 157, 817>>, <<39, 088, 169>>,
    <<63, 245, 986>>, <<102, 334, 155>>, <<165, 580, 141>>, <<267, 914, 296>>,
    <<433, 494, 437>>, <<701, 408, 733>>, <<1, 134, 903, 170>>, <<1, 836, 311, 903>>,
    <<2, 971, 215, 073>>, <<4, 807, 526, 976>>, <<7, 778, 742, 049>>, <<12, 586, 269, 025>>,
    <<20, 365, 011, 074>>, <<32, 951, 280, 099>>, <<53, 316, 291, 173>>, <<86, 267, 571, 272>>,
    <<139, 583, 862, 445>>, <<225, 851, 433, 717>>, <<365, 435, 296, 162>>,
    <<591, 286, 729, 879>>, <<956, 722, 026, 041>>, <<1, 548, 008, 755, 920>>,
    <<2, 504, 730, 781, 961>>, <<4, 052, 739, 537, 881>>, <<6, 557, 470, 319, 842>>,
    <<10, 610, 209, 857, 723>>, <<17, 167, 680, 177, 565>>, <<27, 777, 890, 035, 288>>,
    <<44, 945, 570, 212, 853>>, <<72, 723, 460, 248, 141>>, <<117, 669, 030, 460, 994>>,
    <<190, 392, 490, 709, 135>>, <<308, 061, 521, 170, 129>>, <<498, 454, 011, 879, 264>>,
    <<806, 515, 533, 049, 393>>, <<1, 304, 969, 544, 928, 657>>, <<2, 111, 485, 077, 978, 050>>,
    <<3, 416, 454, 622, 906, 707>>, <<5, 527, 939, 700, 884, 757>>,
    <<8, 944, 394, 323, 791, 464>>, <<14, 472, 334, 024, 676, 221>>,
    <<23, 416, 728, 348, 467, 685>>, <<37, 889, 062, 373, 143, 906>>,
    <<61, 305, 790, 721, 611, 591>>, <<99, 194, 853, 094, 755, 497>>,
    <<160, 500, 643, 816, 367, 088>>, <<259, 695, 496, 911, 122, 585>>,
    <<420, 196, 140, 727, 489, 673>>, <<679, 891, 637, 638, 612, 258>>,
    <<1, 100, 087, 778, 366, 101, 931>>, <<1, 779, 979, 416, 004, 714, 189>>,
    <<2, 880, 067, 194, 370, 816, 120>>, <<4, 660, 046, 610, 375, 530, 309>>,
    <<7, 540, 113, 804, 746, 346, 429>>, <<12, 200, 160, 415, 121, 876, 738>> >>

\* The literal array of the i128 implementation, fibonacci.rs lines 328-517.
\* Each literal is written as its decimal digits in groups of three.
ARRAY_i128 ==
  <<<<0>>, <<1>>, <<1>>, <<2>>, <<3>>, <<5>>, <<8>>, <<13>>, <<21>>, <<34>>, <<55>>, <<89>>,
    <<144>>, <<233>>, <<377>>, <<610>>, <<987>>, <<1, 597>>, <<2, 584>>, <<4, 181>>, <<6, 765>>,
    <<10, 946>>, <<17, 711>>, <<28, 657>>, <<46, 368>>, <<75, 025>>, <<121, 393>>, <<196, 418>>,
    <<317, 811>>, <<514, 229>>, <<832, 040>>, <<1, 346, 269>>, <<2, 178, 309>>, <<3, 524, 578>>,
    <<5, 702, 887>>, <<9, 227, 465>>, <<14, 930, 352>>, <<24, 157, 817>>, <<39, 088, 169>>,
    <<63, 245, 986>>, <<102, 334, 155>>, <<165, 580, 141>>, <<267, 914, 296>>,
    <<433, 494, 437>>, <<701, 408, 733>>, <<1, 134, 903, 170>>, <<1, 836, 311, 903>>,
    <<2, 971, 215, 073>>, <<4, 807, 526, 976>>, <<7, 778, 742, 049>>, <<12, 586, 269, 025>>,
    <<20, 365, 011, 074>>, <<32, 951, 280, 099>>, <<53, 316, 291, 173>>, <<86, 267, 571, 272>>,
    <<139, 583, 862, 445>>, <<225, 851, 433, 717>>, <<365, 435, 296, 162>>,
    <<591, 286, 729, 879>>, <<956, 722, 026, 041>>, <<1, 548, 008, 755, 920>>,
    <<2, 504, 730, 781, 961>>, <<4, 052, 739, 537, 881>>, <<6, 557, 470, 319, 842>>,
    <<10, 610, 209, 857, 723>>, <<17, 167, 680, 177, 565>>, <<27, 777, 890, 035, 288>>,
    <<44, 945, 570, 212, 853>>, <<72, 723, 460, 248, 141>>, <<117, 669, 030, 460, 994>>,
    <<190, 392, 490, 709, 135>>, <<308, 061, 521, 170, 129>>, <<498, 454, 011, 879, 264>>,
    <<806, 515, 533, 049, 393>>, <<1, 304, 969, 544, 928, 657>>, <<2, 111, 485, 077, 978, 050>>,
    <<3, 416, 454, 622, 906, 707>>, <<5, 527, 939, 700, 884, 757>>,
    <<8, 944, 394, 323, 791, 464>>, <<14, 472, 334, 024, 676, 221>>,
    <<23, 416, 728, 348, 467, 685>>, <<37, 889, 062, 373, 143, 906>>,
    <<61, 305, 790, 721, 611, 591>>, <<99, 194, 853, 094, 755, 497>>,
    <<160, 500, 643, 816, 367, 088>>, <<259, 695, 496, 911, 122, 585>>,
    <<420, 196, 140, 727, 489, 673>>, <<679, 891, 637, 638, 612, 258>>,
    <<1, 100, 087, 778, 366, 101, 931>>, <<1, 779, 979, 416, 004, 714, 189>>,
    <<2, 880, 067, 194, 370, 816, 120>>, <<4, 660, 046, 610, 375, 530, 309>>,
    <<7, 540, 113, 804, 746, 346, 429>>, <<12, 200, 160, 415, 121, 876, 738>>,
    <<19, 740, 274, 219, 868, 223, 167>>, <<31, 940, 434, 634, 990, 099, 905>>,
    <<51, 680, 708, 854, 858, 323, 072>>, <<83, 621, 143, 489, 848, 422, 977>>,
    <<135, 301, 852, 344, 706, 746, 049>>, <<218, 922, 995, 834, 555, 169, 026>>,
    <<354, 224, 848, 179, 261, 915, 075>>, <<573, 147, 844, 013, 817, 084, 101>>,
    <<927, 372, 692, 193, 078, 999, 176>>, <<1, 500, 520, 536, 206, 896, 083, 277>>,
    <<2, 427, 893, 228, 399, 975, 082, 453>>, <<3, 928, 413, 764, 606, 871, 165, 730>>,
    <<6, 356, 306, 993, 006, 846, 248, 183>>, <<10, 284, 720, 757, 613, 717, 413, 913>>,
    <<16, 641, 027, 750, 620, 563, 662, 096>>, <<26, 925, 748, 508, 234, 281, 076, 009>>,
    <<43, 566, 776, 258, 854, 844, 738, 105>>, <<70, 492, 524, 767, 089, 125, 814, 114>>,
    <<114, 059, 301, 025, 943, 970, 552, 219>>, <<184, 551, 825, 793, 033, 096, 366, 333>>,
    <<298, 611, 126, 818, 977, 066, 918, 552>>, <<483, 162, 952, 612, 010, 163, 284, 885>>,
    <<781, 774, 079, 430, 987, 230, 203, 437>>, <<1, 264, 937, 032, 042, 997, 393, 488, 322>>,
    <<2, 046, 711, 111, 473, 984, 623, 691, 759>>,
    <<3, 311, 648, 143, 516, 982, 017, 180, 081>>,
    <<5, 358, 359, 254, 990, 966, 640, 871, 840>>,
    <<8, 670, 007, 398, 507, 948, 658, 051, 921>>,
    <<14, 028, 366, 653, 498, 915, 298, 923, 761>>,
    <<22, 698, 374, 052, 006, 863, 956, 975, 682>>,
    <<36, 726, 740, 705, 505, 779, 255, 899, 443>>,
    <<59, 425, 114, 757, 512, 643, 212, 875, 125>>,
    <<96, 151, 855, 463, 018, 422, 468, 774, 568>>,
    <<155, 576, 970, 220, 531, 065, 681, 649, 693>>,
    <<251, 728, 825, 683, 549, 488, 150, 424, 261>>,
    <<407, 305, 795, 904, 080, 553, 832, 073, 954>>,
    <<659, 034, 621, 587, 630, 041, 982, 498, 215>>,
    <<1, 066, 340, 417, 491, 710, 595, 814, 572, 169>>,
    <<1, 725, 375, 039, 079, 340, 637, 797, 070, 384>>,
    <<2, 791, 715, 456, 571, 051, 233, 611, 642, 553>>,
    <<4, 517, 090, 495, 650, 391, 871, 408, 712, 937>>,
    <<7, 308, 805, 952, 221, 443, 105, 020, 355, 490>>,
    <<11, 825, 896, 447, 871, 834, 976, 429, 068, 427>>,
    <<19, 134, 702, 400, 093, 278, 081, 449, 423, 917>>,
    <<30, 960, 598, 847, 965, 113, 057, 878, 492, 344>>,
    <<50, 095, 301, 248, 058, 391, 139, 327, 916, 261>>,
    <<81, 055, 900, 096, 023, 504, 197, 206, 408, 605>>,
    <<131, 151, 201, 344, 081, 895, 336, 534, 324, 866>>,
    <<212, 207, 101, 440, 105, 399, 533, 740, 733, 471>>,
    <<343, 358, 302, 784, 187, 294, 870, 275, 058, 337>>,
    <<555, 565, 404, 224, 292, 694, 404, 015, 791, 808>>,
    <<898, 923, 707, 008, 479, 989, 274, 290, 850, 145>>,
    <<1, 454, 489, 111, 232, 772, 683, 678, 306, 641, 953>>,
    <<2, 353, 412, 818, 241, 252, 672, 952, 597, 492, 098>>,
    <<3, 807, 901, 929, 474, 025, 356, 630, 904, 134, 051>>,
    <<6, 161, 314, 747, 715, 278, 029, 583, 501, 626, 149>>,
    <<9, 969, 216, 677, 189, 303, 386, 214, 405, 760, 200>>,
    <<16, 130, 531, 424, 904, 581, 415, 797, 907, 386, 349>>,
    <<26, 099, 748, 102, 093, 884, 802, 012, 313, 146, 549>>,
    <<42, 230, 279, 526, 998, 466, 217, 810, 220, 532, 898>>,
    <<68, 330, 027, 629, 092, 351, 019, 822, 533, 679, 447>>,
    <<110, 560, 307, 156, 090, 817, 237, 632, 754, 212, 345>>,
    <<178, 890, 334, 785, 183, 168, 257, 455, 287, 891, 792>>,
    <<289, 450, 641, 941, 273, 985, 495, 088, 042, 104, 137>>,
    <<468, 340, 976, 726, 457, 153, 752, 543, 329, 995, 929>>,
    <<757, 791, 618, 667, 731, 139, 247, 631, 372, 100, 066>>,
    <<1, 226, 132, 595, 394, 188, 293, 000, 174, 702, 095, 995>>,
    <<1, 983, 924, 214, 061, 919, 432, 247, 806, 074, 196, 061>>,
    <<3, 210, 056, 809, 456, 107, 725, 247, 980, 776, 292, 056>>,
    <<5, 193, 981, 023, 518, 027, 157, 495, 786, 850, 488, 117>>,
    <<8, 404, 037, 832, 974, 134, 882, 743, 767, 626, 780, 173>>,
    <<13, 598, 018, 856, 492, 162, 040, 239, 554, 477, 268, 290>>,
    <<22, 002, 056, 689, 466, 296, 922, 983, 322, 104, 048, 463>>,
    <<35, 600, 075, 545, 958, 458, 963, 222, 876, 581, 316, 753>>,
    <<57, 602, 132, 235, 424, 755, 886, 206, 198, 685, 365, 216>>,
    <<93, 202, 207, 781, 383, 214, 849, 429, 075, 266, 681, 969>>,
    <<150, 804, 340, 016, 807, 970, 735, 635, 273, 952, 047, 185>>,
    <<244, 006, 547, 798, 191, 185, 585, 064, 349, 218, 729, 154>>,
    <<394, 810, 887, 814, 999, 156, 320, 699, 623, 170, 776, 339>>,
    <<638, 817, 435, 613, 190, 341, 905, 763, 972, 389, 505, 493>>,
    <<1, 033, 628, 323, 428, 189, 498, 226, 463, 595, 560, 281, 832>>,
    <<1, 672, 445, 759, 041, 379, 840, 132, 227, 567, 949, 787, 325>>,
    <<2, 706, 074, 082, 469, 569, 338, 358, 691, 163, 510, 069, 157>>,
    <<4, 378, 519, 841, 510, 949, 178, 490, 918, 731, 459, 856, 482>>,
    <<7, 084, 593, 923, 980, 518, 516, 849, 609, 894, 969, 925, 639>>,
    <<11, 463, 113, 765, 491, 467, 695, 340, 528, 626, 429, 782, 121>>,
    <<18, 547, 707, 689, 471, 986, 212, 190, 138, 521, 399, 707, 760>>,
    <<30, 010, 821, 454, 963, 453, 907, 530, 667, 147, 829, 489, 881>>,
    <<48, 558, 529, 144, 435, 440, 119, 720, 805, 669, 229, 197, 641>>,
    <<78, 569, 350, 599, 398, 894, 027, 251, 472, 817, 058, 687, 522>>,
    <<127, 127, 879, 743, 834, 334, 146, 972, 278, 486, 287, 885, 163>> >>

\* The literal array of the u128 implementation, fibonacci.rs lines 519-710.
\* Each literal is written as its decimal digits in groups of three.
ARRAY_u128 ==
  <<<<0>>, <<1>>, <<1>>, <<2>>, <<3>>, <<5>>, <<8>>, <<13>>, <<21>>, <<34>>, <<55>>, <<89>>,
    <<144>>, <<233>>, <<377>>, <<610>>, <<987>>, <<1, 597>>, <<2, 584>>, <<4, 181>>, <<6, 765>>,
    <<10, 946>>, <<17, 711>>, <<28, 657>>, <<46, 368>>, <<75, 025>>, <<121, 393>>, <<196, 418>>,
    <<317, 811>>, <<514, 229>>, <<832, 040>>, <<1, 346, 269>>, <<2, 178, 309>>, <<3, 524, 578>>,
    <<5, 702, 887>>, <<9, 227, 465>>, <<14, 930, 352>>, <<24, 157, 817>>, <<39, 088, 169>>,
    <<63, 245, 986>>, <<102, 334, 155>>, <<165, 580, 141>>, <<267, 914, 296>>,
    <<433, 494, 437>>, <<701, 408, 733>>, <<1, 134, 903, 170>>, <<1, 836, 311, 903>>,
    <<2, 971, 215, 073>>, <<4, 807, 526, 976>>, <<7, 778, 742, 049>>, <<12, 586, 269, 025>>,
    <<20, 365, 011, 074>>, <<32, 951, 280, 099>>, <<53, 316, 291, 173>>, <<86, 267, 571, 272>>,
    <<139, 583, 862, 445>>, <<225, 851, 433, 717>>, <<365, 435, 296, 162>>,
    <<591, 286, 729, 879>>, <<956, 722, 026, 041>>, <<1, 548, 008, 755, 920>>,
    <<2, 504, 730, 781, 961>>, <<4, 052, 739, 537, 881>>, <<6, 557, 470, 319, 842>>,
    <<10, 610, 209, 857, 723>>, <<17, 167, 680, 177, 565>>, <<27, 777, 890, 035, 288>>,
    <<44, 945, 570, 212, 853>>, <<72, 723, 460, 248, 141>>, <<117, 669, 030, 460, 994>>,
    <<190, 392, 490, 709, 135>>, <<308, 061, 521, 170, 129>>, <<498, 454, 011, 879, 264>>,
    <<806, 515, 533, 049, 393>>, <<1, 304, 969, 544, 928, 657>>, <<2, 111, 485, 077, 978, 050>>,
    <<3, 416, 454, 622, 906, 707>>, <<5, 527, 939, 700, 884, 757>>,
    <<8, 944, 394, 323, 791, 464>>, <<14, 472, 334, 024, 676, 221>>,
    <<23, 416, 728, 348, 467, 685>>, <<37, 889, 062, 373, 143, 906>>,
    <<61, 305, 790, 721, 611, 591>>, <<99, 194, 853, 094, 755, 497>>,
    <<160, 500, 643, 816, 367, 088>>, <<259, 695, 496, 911, 122, 585>>,
    <<420, 196, 140, 727, 489, 673>>, <<679, 891, 637, 638, 612, 258>>,
    <<1, 100, 087, 778, 366, 101, 931>>, <<1, 779, 979, 416, 004, 714, 189>>,
    <<2, 880, 067, 194, 370, 816, 120>>, <<4, 660, 046, 610, 375, 530, 309>>,
    <<7, 540, 113, 804, 746, 346, 429>>, <<12, 200, 160, 415, 121, 876, 738>>,
    <<19, 740, 274, 219, 868, 223, 167>>, <<31, 940, 434, 634, 990, 099, 905>>,
    <<51, 680, 708, 854, 858, 323, 072>>, <<83, 621, 143, 489, 848, 422, 977>>,
    <<135, 301, 852, 344, 706, 746, 049>>, <<218, 922, 995, 834, 555, 169, 026>>,
    <<354, 224, 848, 179, 261, 915, 075>>, <<573, 147, 844, 013, 817, 084, 101>>,
    <<927, 372, 692, 193, 078, 999, 176>>, <<1, 500, 520, 536, 206, 896, 083, 277>>,
    <<2, 427, 893, 228, 399, 975, 082, 453>>, <<3, 928, 413, 764, 606, 871, 165, 730>>,
    <<6, 356, 306, 993, 006, 846, 248, 183>>, <<10, 284, 720, 757, 613, 717, 413, 913>>,
    <<16, 641, 027, 750, 620, 563, 662, 096>>, <<26, 925, 748, 508, 234, 281, 076, 009>>,
    <<43, 566, 776, 258, 854, 844, 738, 105>>, <<70, 492, 524, 767, 089, 125, 814, 114>>,
    <<114, 059, 301, 025, 943, 970, 552, 219>>, <<184, 551, 825, 793, 033, 096, 366, 333>>,
    <<298, 611, 126, 818, 977, 066, 918, 552>>, <<483, 162, 952, 612, 010, 163, 284, 885>>,
    <<781, 774, 079, 430, 987, 230, 203, 437>>, <<1, 264, 937, 032, 042, 997, 393, 488, 322>>,
    <<2, 046, 711, 111, 473, 984, 623, 691, 759>>,
    <<3, 311, 648, 143, 516, 982, 017, 180, 081>>,
    <<5, 358, 359, 254, 990, 966, 640, 871, 840>>,
    <<8, 670, 007, 398, 507, 948, 658, 051, 921>>,
    <<14, 028, 366, 653, 498, 915, 298, 923, 761>>,
    <<22, 698, 374, 052, 006, 863, 956, 975, 682>>,
    <<36, 726, 740, 705, 505, 779, 255, 899, 443>>,
    <<59, 425, 114, 757, 512, 643, 212, 875, 125>>,
    <<96, 151, 855, 463, 018, 422, 468, 774, 568>>,
    <<155, 576, 970, 220, 531, 065, 681, 649, 693>>,
    <<251, 728, 825, 683, 549, 488, 150, 424, 261>>,
    <<407, 305, 795, 904, 080, 553, 832, 073, 954>>,
    <<659, 034, 621, 587, 630, 041, 982, 498, 215>>,
    <<1, 066, 340, 417, 491, 710, 595, 814, 572, 169>>,
    <<1, 725, 375, 039, 079, 340, 637, 797, 070, 384>>,
    <<2, 791, 715, 456, 571, 051, 233, 611, 642, 553>>,
    <<4, 517, 090, 495, 650, 391, 871, 408, 712, 937>>,
    <<7, 308, 805, 952, 221, 443, 105, 020, 355, 490>>,
    <<11, 825, 896, 447, 871, 834, 976, 429, 068, 427>>,
    <<19, 134, 702, 400, 093, 278, 081, 449, 423, 917>>,
    <<30, 960, 598, 847, 965, 113, 057, 878, 492, 344>>,
    <<50, 095, 301, 248, 058, 391, 139, 327, 916, 261>>,
    <<81, 055, 900, 096, 023, 504, 197, 206, 408, 605>>,
    <<131, 151, 201, 344, 081, 895, 336, 534, 324, 866>>,
    <<212, 207, 101, 440, 105, 399, 533, 740, 733, 471>>,
    <<343, 358, 302, 784, 187, 294, 870, 275, 058, 337>>,
    <<555, 565, 404, 224, 292, 694, 404, 015, 791, 808>>,
    <<898, 923, 707, 008, 479, 989, 274, 290, 850, 145>>,
    <<1, 454, 489, 111, 232, 772, 683, 678, 306, 641, 953>>,
    <<2, 353, 412, 818, 241, 252, 672, 952, 597, 492, 098>>,
    <<3, 807, 901, 929, 474, 025, 356, 630, 904, 134, 051>>,
    <<6, 161, 314, 747, 715, 278, 029, 583, 501, 626, 149>>,
    <<9, 969, 216, 677, 189, 303, 386, 214, 405, 760, 200>>,
    <<16, 130, 531, 424, 904, 581, 415, 797, 907, 386, 349>>,
    <<26, 099, 748, 102, 093, 884, 802, 012, 313, 146, 549>>,
    <<42, 230, 279, 526, 998, 466, 217, 810, 220, 532, 898>>,
    <<68, 330, 027, 629, 092, 351, 019, 822, 533, 679, 447>>,
    <<110, 560, 307, 156, 090, 817, 237, 632, 754, 212, 345>>,
    <<178, 890, 334, 785, 183, 168, 257, 455, 287, 891, 792>>,
    <<289, 450, 641, 941, 273, 985, 495, 088, 042, 104, 137>>,
    <<468, 340, 976, 726, 457, 153, 752, 543, 329, 995, 929>>,
    <<757, 791, 618, 667, 731, 139, 247, 631, 372, 100, 066>>,
    <<1, 226, 132, 595, 394, 188, 293, 000, 174, 702, 095, 995>>,
    <<1, 983, 924, 214, 061, 919, 432, 247, 806, 074, 196, 061>>,
    <<3, 210, 056, 809, 456, 107, 725, 247, 980, 776, 292, 056>>,
    <<5, 193, 981, 023, 518, 027, 157, 495, 786, 850, 488, 117>>,
    <<8, 404, 037, 832, 974, 134, 882, 743, 767, 626, 780, 173>>,
    <<13, 598, 018, 856, 492, 162, 040, 239, 554, 477, 268, 290>>,
    <<22, 002, 056, 689, 466, 296, 922, 983, 322, 104, 048, 463>>,
    <<35, 600, 075, 545, 958, 458, 963, 222, 876, 581, 316, 753>>,
    <<57, 602, 132, 235, 424, 755, 886, 206, 198, 685, 365, 216>>,
    <<93, 202, 207, 781, 383, 214, 849, 429, 075, 266, 681, 969>>,
    <<150, 804, 340, 016, 807, 970, 735, 635, 273, 952, 047, 185>>,
    <<244, 006, 547, 798, 191, 185, 585, 064, 349, 218, 729, 154>>,
    <<394, 810, 887, 814, 999, 156, 320, 699, 623, 170, 776, 339>>,
    <<638, 817, 435, 613, 190, 341, 905, 763, 972, 389, 505, 493>>,
    <<1, 033, 628, 323, 428, 189, 498, 226, 463, 595, 560, 281, 832>>,
    <<1, 672, 445, 759, 041, 379, 840, 132, 227, 567, 949, 787, 325>>,
    <<2, 706, 074, 082, 469, 569, 338, 358, 691, 163, 510, 069, 157>>,
    <<4, 378, 519, 841, 510, 949, 178, 490, 918, 731, 459, 856, 482>>,
    <<7, 084, 593, 923, 980, 518, 516, 849, 609, 894, 969, 925, 639>>,
    <<11, 463, 113, 765, 491, 467, 695, 340, 528, 626, 429, 782, 121>>,
    <<18, 547, 707, 689, 471, 986, 212, 190, 138, 521, 399, 707, 760>>,
    <<30, 010, 821, 454, 963, 453, 907, 530, 667, 147, 829, 489, 881>>,
    <<48, 558, 529, 144, 435, 440, 119, 720, 805, 669, 229, 197, 641>>,
    <<78, 569, 350, 599, 398, 894, 027, 251, 472, 817, 058, 687, 522>>,
    <<127, 127, 879, 743, 834, 334, 146, 972, 278, 486, 287, 885, 163>>,
    <<205, 697, 230, 343, 233, 228, 174, 223, 751, 303, 346, 572, 685>>,
    <<332, 825, 110, 087, 067, 562, 321, 196, 029, 789, 634, 457, 848>> >>
\* ---------------------------------------------------------------------------
\* State.
\* ---------------------------------------------------------------------------

VARIABLES
  host,             \* the target's pointer width: the width of isize and usize
  dom,              \* the type whose fibonacci_iter cursors are in use
  cur,              \* the cursors returned by fibonacci_iter of dom
  rug,              \* the RugIter cursors
  call,             \* the last call made and what it returned
  gen               \* the const evaluation of ARRAY_SIZE and ARRAY of dom

vars == <<host, dom, cur, rug, call, gen>>

\* The pointer widths Rust targets have.
HostWidths == {16, 32, 64}

SignedTypes == {"i8", "i16", "i32", "i64", "i128", "isize"}

UnsignedTypes == {"u8", "u16", "u32", "u64", "u128", "usize"}

Types == SignedTypes \cup UnsignedTypes

Signed(t) == t \in SignedTypes

\* The bit width of type t on a target whose pointers have h bits.
Bits(t, h) ==
  CASE t \in {"i8", "u8"} -> 8
    [] t \in {"i16", "u16"} -> 16
    [] t \in {"i32", "u32"} -> 32
    [] t \in {"i64", "u64"} -> 64
    [] t \in {"i128", "u128"} -> 128
    [] t \in {"isize", "usize"} -> h

\* <$type>::MAX and <$type>::MIN
MaxOf(t, h) ==
  IF Signed(t) THEN Pos(NatSub(Pow2(Bits(t, h) - 1), NatOne))
  ELSE Pos(NatSub(Pow2(Bits(t, h)), NatOne))

MinOf(t, h) == IF Signed(t) THEN MkInt(TRUE, Pow2(Bits(t, h) - 1)) ELSE IntZero

InRange(t, h, x) == IntLeq(MinOf(t, h), x) /\ IntLeq(x, MaxOf(t, h))

\* a.checked_add(b) of type t
checked_add(t, h, a, b) ==
  LET s == IntAdd(a, b) IN IF InRange(t, h, s) THEN Some(s) ELSE None

\* x modulo 2^bits: the two's complement form of x in bits bits, as a number.
LowBits(x, bits) ==
  LET r == NatLow(x.mag, bits)
  IN  IF x.neg /\ r # NatZero THEN NatSub(Pow2(bits), r) ELSE r

\* The value of type t whose two's complement form is low.
FromBits(t, h, low) ==
  IF Signed(t) /\ NatLeq(Pow2(Bits(t, h) - 1), low)
  THEN MkInt(TRUE, NatSub(Pow2(Bits(t, h)), low))
  ELSE Pos(low)

\* x wrapped into type t: the value of t that equals x modulo 2^bits.  (The
\* sets of one element have x and its low bits evaluated once.)
Wrapping(t, h, x) ==
  CHOOSE w \in {FromBits(t, h, low) : low \in {LowBits(v, Bits(t, h)) : v \in {x}}} : TRUE

\* A checked_add that reports success whatever the sum: Some of the wrapped
\* sum where the real one returns None.
checked_add_always_some(t, h, a, b) == Some(Wrapping(t, h, IntAdd(a, b)))

\* The checked_add primitives a host can give the generator: the real one and
\* the misbehaving one.
Primitives == {"checked_add", "always_some"}

\* ---------------------------------------------------------------------------
\* The const generator of the isize and usize tables.  A generator state holds
\* the loop variables a and b (Option), the counter (result of the counting
\* loop, i of the fill loop), the array being filled, whether const evaluation
\* has stopped with an error (a write past the end of the array, an overflow
\* of the counter), whether it sits in the `loop {}` arm of the fill loop,
\* and the checked_add primitive the host gives it.
\* ---------------------------------------------------------------------------

\* b = match (a, b) { (Some(a), Some(b)) => a.checked_add(b), _ => None }
NextB(t, h, a, b) ==
  IF a.kind = "Some" /\ b.kind = "Some" THEN checked_add(t, h, a.val, b.val) ELSE None

\* A generator that does not rely on the primitive: a sum below its second
\* term is taken as an overflow.
NextBWith_guarded(prim, t, h, a, b) ==
  LET sum == IF prim = "checked_add" THEN NextB(t, h, a, b)
             ELSE IF a.kind = "Some" /\ b.kind = "Some"
                  THEN checked_add_always_some(t, h, a.val, b.val)
                  ELSE None
  IN  IF sum.kind = "Some" /\ IntLess(sum.val, b.val) THEN None ELSE sum

\* The same with the primitive prim in the place of checked_add.
NextBWith(prim, t, h, a, b) ==
  IF prim = "checked_add" THEN NextB(t, h, a, b)
  ELSE IF a.kind = "Some" /\ b.kind = "Some"
       THEN checked_add_always_some(t, h, a.val, b.val)
       ELSE None

\* The loop variables as both loops set them up.
GenStart(array) ==
  [a |-> Some(IntZero), b |-> Some(Pos(NatOne)), i |-> 0, array |-> array,
   fault |-> FALSE, hung |-> FALSE, prim |-> "checked_add"]

\* The loops as `while b.is_some()`.
GenRunning_b(st) == st.b.kind = "Some" /\ ~st.fault /\ ~st.hung

\* while a.is_some(): whether the loop goes round once more
GenRunning(st) == st.a.kind = "Some" /\ ~st.fault /\ ~st.hung

\* result += 1, i += 1: an overflow of a usize counter stops the evaluation
\* of a const item, whatever the overflow checks of the build.
CounterOverflows(h, i) == Nat2(i + 1) = Pow2(h)

\* The round of the counting loop that ends the loop as soon as b is None,
\* so that it leaves out the last round.
SizeStep_early(t, h, st) ==
  LET b == NextBWith(st.prim, t, h, st.a, st.b)
  IN  IF CounterOverflows(h, st.i)
      THEN [st EXCEPT !.fault = TRUE]
      ELSE [st EXCEPT !.a = IF b.kind = "None" THEN None ELSE st.b, !.b = b,
                      !.i = st.i + 1]

\* One round of the counting loop of ARRAY_SIZE.
SizeStep(t, h, st) ==
  IF CounterOverflows(h, st.i)
  THEN [st EXCEPT !.fault = TRUE]
  ELSE [st EXCEPT !.a = st.b, !.b = NextBWith(st.prim, t, h, st.a, st.b), !.i = st.i + 1]

\* One round of the fill loop of ARRAY: result[i] = a, then as above.  The
\* right-hand side of the assignment is evaluated before the index is
\* checked.
FillStep(t, h, st) ==
  IF st.a.kind # "Some"
  THEN [st EXCEPT !.hung = TRUE]
  ELSE IF st.i >= Len(st.array) \/ CounterOverflows(h, st.i)
  THEN [st EXCEPT !.fault = TRUE]
  ELSE [st EXCEPT !.array = [st.array EXCEPT ![st.i + 1] = st.a.val],
                  !.a = st.b, !.b = NextBWith(st.prim, t, h, st.a, st.b),
                  !.i = st.i + 1]

\* More rounds than either loop makes: F(2w) exceeds 2^w.
Rounds(t, h) == 2 * Bits(t, h)

\* The state k rounds after st, or the state in which the loop ended if it
\* ends before.  The rounds are taken half by half.
RECURSIVE SizeRun(_, _, _, _)
SizeRun(t, h, st, k) ==
  IF ~GenRunning(st) \/ k = 0 THEN st
  ELSE IF k = 1 THEN SizeStep(t, h, st)
  ELSE LET mid == SizeRun(t, h, st, k \div 2)
       IN  IF GenRunning(mid) THEN SizeRun(t, h, mid, k - k \div 2) ELSE mid

RECURSIVE FillRun(_, _, _, _)
FillRun(t, h, st, k) ==
  IF ~GenRunning(st) \/ k = 0 THEN st
  ELSE IF k = 1 THEN FillStep(t, h, st)
  ELSE LET mid == FillRun(t, h, st, k \div 2)
       IN  IF GenRunning(mid) THEN FillRun(t, h, mid, k - k \div 2) ELSE mid

ARRAY_SIZE(t, h) == SizeRun(t, h, GenStart(<<>>), Rounds(t, h)).i

\* [0; n]
RECURSIVE Zeros(_)
Zeros(n) ==
  IF n = 0 THEN <<>>
  ELSE IF n = 1 THEN <<IntZero>>
  ELSE Zeros(n \div 2) \o Zeros(n - n \div 2)

ARRAY(t, h) == FillRun(t, h, GenStart(Zeros(ARRAY_SIZE(t, h))), Rounds(t, h)).array

\* The generated tables, for each pointer width.
ARRAY_isize_16 == ARRAY("isize", 16)

ARRAY_isize_32 == ARRAY("isize", 32)

ARRAY_isize_64 == ARRAY("isize", 64)

ARRAY_usize_16 == ARRAY("usize", 16)

ARRAY_usize_32 == ARRAY("usize", 32)

ARRAY_usize_64 == ARRAY("usize", 64)

ARRAY_isize(h) ==
  CASE h = 16 -> ARRAY_isize_16 [] h = 32 -> ARRAY_isize_32 [] h = 64 -> ARRAY_isize_64

ARRAY_usize(h) ==
  CASE h = 16 -> ARRAY_usize_16 [] h = 32 -> ARRAY_usize_32 [] h = 64 -> ARRAY_usize_64

\* The literals arr[lo..hi] as numbers.
RECURSIVE LiteralsFrom(_, _, _)
LiteralsFrom(arr, lo, hi) ==
  IF lo > hi THEN <<>>
  ELSE IF lo = hi THEN <<Pos(Lit(arr[lo]))>>
  ELSE LiteralsFrom(arr, lo, (lo + hi) \div 2) \o LiteralsFrom(arr, (lo + hi) \div 2 + 1, hi)

Literals(arr) == LiteralsFrom(arr, 1, Len(arr))

TABLE_i8 == Literals(ARRAY_i8)

TABLE_u8 == Literals(ARRAY_u8)

TABLE_i16 == Literals(ARRAY_i16)

TABLE_u16 == Literals(ARRAY_u16)

TABLE_i32 == Literals(ARRAY_i32)

TABLE_u32 == Literals(ARRAY_u32)

TABLE_i64 == Literals(ARRAY_i64)

TABLE_u64 == Literals(ARRAY_u64)

TABLE_i128 == Literals(ARRAY_i128)

TABLE_u128 == Literals(ARRAY_u128)

\* $array of the implementation of type t: what the macro is instantiated with.
Table(t, h) ==
  CASE t = "i8" -> TABLE_i8
    [] t = "u8" -> TABLE_u8
    [] t = "i16" -> TABLE_i16
    [] t = "u16" -> TABLE_u16
    [] t = "i32" -> TABLE_i32
    [] t = "u32" -> TABLE_u32
    [] t = "i64" -> TABLE_i64
    [] t = "u64" -> TABLE_u64
    [] t = "i128" -> TABLE_i128
    [] t = "u128" -> TABLE_u128
    [] t = "isize" -> ARRAY_isize(h)
    [] t = "usize" -> ARRAY_usize(h)

\* ---------------------------------------------------------------------------
\* nth_fibonacci of the fixed-width types.
\* ---------------------------------------------------------------------------

\* x as usize: the low h bits of the two's complement form of x, that is
\* x mod 2^h (sign extension of a narrower x and truncation of a wider one).
AsUsize(x, h) ==
  LET r == NatLow(x.mag, h)
  IN  IF x.neg /\ r # NatZero THEN NatSub(Pow2(h), r) ELSE r

\* -x in type t: x = MIN has no negation in t; the build either traps there
\* (overflow checks on) or wraps around to MIN (overflow checks off).
Negate(t, h, oc, x) ==
  IF Signed(t) /\ x = MinOf(t, h)
  THEN (IF oc THEN Panic ELSE Some(x))
  ELSE Some(IntNeg(x))

\* The parity test the wrong way round: x & 1 == 1.
LowBitClear_inverted(x) == NatOdd(x.mag)

\* x & 1 == 0: bit 0 of the two's complement form of x is bit 0 of |x|.
LowBitClear(x) == ~NatOdd(x.mag)

\* The table indexed from one instead of zero.
SliceGet_from_one(array, idx) ==
  IF idx # NatZero /\ NatLeq(idx, Nat2(Len(array))) THEN Some(array[Small(idx)]) ELSE None

\* The bound test off by one: the last element is out of reach.
SliceGet_short(array, idx) ==
  IF NatLess(idx, Nat2(Len(array) - 1)) THEN Some(array[Small(idx) + 1]) ELSE None

\* array.get(idx).copied() for idx: usize
SliceGet(array, idx) ==
  IF NatLess(idx, Nat2(Len(array))) THEN Some(array[Small(idx) + 1]) ELSE None

\* element.map(<$type as Neg>::neg)
MapNeg(t, h, oc, element) ==
  IF element.kind = "Some" THEN Negate(t, h, oc, element.val) ELSE element

nth_fibonacci_signed(t, h, oc, n) ==
  LET array == Table(t, h)
  IN  IF IntLess(n, IntZero)
      THEN LET m == Negate(t, h, oc, n)
           IN  IF m.kind = "Panic" THEN Panic
               ELSE LET element == SliceGet(array, AsUsize(m.val, h))
                    IN  IF LowBitClear(n) THEN MapNeg(t, h, oc, element) ELSE element
      ELSE SliceGet(array, AsUsize(n, h))

nth_fibonacci_unsigned(t, h, n) == SliceGet(Table(t, h), AsUsize(n, h))

nth_fibonacci(t, h, oc, n) ==
  IF Signed(t) THEN nth_fibonacci_signed(t, h, oc, n) ELSE nth_fibonacci_unsigned(t, h, n)

\* ---------------------------------------------------------------------------
\* The cursor of a fixed-width type: Copied<slice::Iter<'static, $type>> over
\* the table.  pos is the number of elements the cursor has left behind.
\* ---------------------------------------------------------------------------

fibonacci_iter == [pos |-> 0]

\* Iterator::next: the front element, if one is left.
IterNextResult(array, it) ==
  IF it.pos < Len(array) THEN Some(array[it.pos + 1]) ELSE None

IterNextState(array, it) ==
  IF it.pos < Len(array) THEN [pos |-> it.pos + 1] ELSE it

\* Iterator::nth(k): skips k elements and returns the next; a skip past the
\* end leaves the cursor at the end.
IterNthResult(array, it, k) ==
  IF k < Len(array) - it.pos THEN Some(array[it.pos + k + 1]) ELSE None

\* A skip past the end that leaves the cursor where it was.
IterNthState_unclamped(array, it, k) ==
  IF k < Len(array) - it.pos THEN [pos |-> it.pos + k + 1] ELSE it

IterNthState(array, it, k) ==
  IF k < Len(array) - it.pos THEN [pos |-> it.pos + k + 1] ELSE [pos |-> Len(array)]

\* ---------------------------------------------------------------------------
\* rug::Integer: RugIter and nth_fibonacci.
\* ---------------------------------------------------------------------------

\* RugIter::new with b left at zero.
RugIter_new_zero == [a |-> IntZero, b |-> IntZero, a_next |-> TRUE]

RugIter_new == [a |-> IntZero, b |-> Pos(NatOne), a_next |-> TRUE]

\* RugIter::next: the value returned and the cursor afterwards.
RugNextResult(it) == Some(IF it.a_next THEN it.a ELSE it.b)

\* RugIter::next with the two additions exchanged: b += a where a is
\* returned, a += b where b is returned.
RugNextState_swapped(it) ==
  IF it.a_next
  THEN [a |-> it.a, b |-> IntAdd(it.b, it.a), a_next |-> FALSE]
  ELSE [a |-> IntAdd(it.a, it.b), b |-> it.b, a_next |-> TRUE]

\* RugIter::next without self.a_next = false in its first branch.
RugNextState_stuck(it) ==
  IF it.a_next
  THEN [a |-> IntAdd(it.a, it.b), b |-> it.b, a_next |-> TRUE]
  ELSE [a |-> it.a, b |-> IntAdd(it.b, it.a), a_next |-> TRUE]

RugNextState(it) ==
  IF it.a_next
  THEN [a |-> IntAdd(it.a, it.b), b |-> it.b, a_next |-> FALSE]
  ELSE [a |-> it.a, b |-> IntAdd(it.b, it.a), a_next |-> TRUE]

\* Iterator::nth(k), the default method: k calls of next, then one more.
RECURSIVE RugAdvance(_, _)
RugAdvance(it, k) == IF k = 0 THEN it ELSE RugAdvance(RugNextState(it), k - 1)

RugNthResult(it, k) == RugNextResult(RugAdvance(it, k))

RugNthState(it, k) == RugNextState(RugAdvance(it, k))

\* Integer::to_usize: Some if 0 <= x < 2^h
to_usize(x, h) ==
  IF ~x.neg /\ NatLess(x.mag, Pow2(h)) THEN Some(x) ELSE None

rug_nth_fibonacci(h, n) ==
  IF IntLess(n, IntZero)
  THEN LET u == to_usize(IntNeg(n), h)
       IN  IF u.kind = "None" THEN None
           ELSE LET result == RugNthResult(RugIter_new, Small(u.val.mag)).val
                IN  Some(IF NatOdd(u.val.mag) THEN IntNeg(result) ELSE result)
  ELSE LET u == to_usize(n, h)
       IN  IF u.kind = "None" THEN None
           ELSE RugNthResult(RugIter_new, Small(u.val.mag))

\* ---------------------------------------------------------------------------
\* Bounds of the model and the inputs drawn within them.
\* ---------------------------------------------------------------------------

\* How far past a boundary (the table length, MIN, MAX, a power of two) the
\* indices given to nth_fibonacci reach.
MaxOffset == 3

\* The largest k given to Iterator::nth of a table cursor.
MaxSkip == 3

\* The largest index magnitude given to nth_fibonacci of rug::Integer that
\* fits usize, and the largest number of values taken from one RugIter.
MaxRugIndex == 12

\* The rounds of the generator loops that are followed on a 32- or 64-bit
\* target whose checked_add always reports success.
MaxFaultyRounds == 200

\* The cursors a caller holds at a time.
Cursors == {"c1", "c2"}

Impls == Types \cup {"rug"}

\* The indices of type t given to nth_fibonacci: around zero and the table
\* length on both sides, next to MIN and MAX, and around the powers of two at
\* which a conversion to usize wraps.
Offsets(len) == (0..MaxOffset) \cup {k \in (len - MaxOffset)..(len + MaxOffset) : k >= 0}

Indices(t, h) ==
  LET len == Len(Table(t, h))
      near == {IntOfSmall(k) : k \in (-(len + MaxOffset))..(len + MaxOffset)}
      ends == UNION {{IntAdd(MinOf(t, h), IntOfSmall(j)), IntAdd(MaxOf(t, h), IntOfSmall(-j))}
                       : j \in 0..MaxOffset}
      wrap == UNION {{MkInt(s, NatAdd(Pow2(w), Nat2(j))) : s \in BOOLEAN, j \in Offsets(len)}
                       : w \in HostWidths \cup {Bits(t, h) - 1}}
  IN  {x \in near \cup ends \cup wrap : InRange(t, h, x)}

\* The indices given to nth_fibonacci of rug::Integer: those up to
\* MaxRugIndex in magnitude, and those around 2^h, the first that has no usize.
RugIndices(h) ==
  {IntOfSmall(k) : k \in (-MaxRugIndex)..MaxRugIndex}
    \cup {MkInt(s, NatAdd(Pow2(h), Nat2(j))) : s \in BOOLEAN, j \in 0..MaxOffset}

NoCall == [op |-> "none", c |-> "-", n |-> IntZero, oc |-> FALSE, result |-> None]

\* ---------------------------------------------------------------------------
\* Initial states and actions.
\* ---------------------------------------------------------------------------

InitCommon ==
  /\ cur = [c \in Cursors |-> [made |-> FALSE, pos |-> 0, ended |-> FALSE]]
  /\ rug = [c \in Cursors |-> [made |-> FALSE, it |-> RugIter_new, count |-> 0]]
  /\ call = NoCall

\* The tables are built when the program is compiled: while the program runs,
\* no const evaluation is under way.
GenIdle ==
  [phase |-> "idle", st |-> GenStart(<<>>), size |-> 0, writes |-> <<>>]

InitLookup == InitCommon /\ host \in HostWidths /\ dom \in Impls /\ gen = GenIdle

\* The cursors of the literal tables do not depend on the pointer width, so
\* every width is taken for isize and usize and one for the other types.
InitIter ==
  /\ InitCommon
  /\ dom \in Types
  /\ host \in (IF dom \in {"isize", "usize"} THEN HostWidths ELSE {64})
  /\ gen = GenIdle

InitRug == InitCommon /\ host \in HostWidths /\ dom = "rug" /\ gen = GenIdle

\* <dom>::nth_fibonacci(&n) for a fixed-width dom, in a build with overflow
\* checks (oc) or without
NthFibonacci(n, oc) ==
  /\ dom \in Types
  /\ call' = [op |-> "nth_fibonacci", c |-> "-", n |-> n, oc |-> oc,
              result |-> nth_fibonacci(dom, host, oc, n)]
  /\ UNCHANGED <<host, dom, cur, rug, gen>>

\* rug::Integer::nth_fibonacci(&n)
RugNthFibonacci(n) ==
  /\ dom = "rug"
  /\ call' = [op |-> "nth_fibonacci", c |-> "-", n |-> n, oc |-> FALSE,
              result |-> rug_nth_fibonacci(host, n)]
  /\ UNCHANGED <<host, dom, cur, rug, gen>>

\* let c = <dom>::fibonacci_iter()
FibonacciIter(c) ==
  /\ dom \in Types
  /\ cur' = [cur EXCEPT ![c] = [made |-> TRUE, pos |-> fibonacci_iter.pos, ended |-> FALSE]]
  /\ call' = [op |-> "fibonacci_iter", c |-> c, n |-> IntZero, oc |-> FALSE,
              result |-> None]
  /\ UNCHANGED <<host, dom, rug, gen>>

\* c.next(); ended records that the cursor has returned None
IterNext(c) ==
  /\ dom \in Types
  /\ cur[c].made
  /\ LET array == Table(dom, host)
         result == IterNextResult(array, cur[c])
     IN  /\ cur' = [cur EXCEPT ![c] = [made |-> TRUE,
                                       pos |-> IterNextState(array, cur[c]).pos,
                                       ended |-> cur[c].ended \/ result.kind = "None"]]
         /\ call' = [op |-> "next", c |-> c, n |-> IntZero, oc |-> FALSE,
                     result |-> result]
  /\ UNCHANGED <<host, dom, rug, gen>>

\* c.nth(k)
IterNth(c, k) ==
  /\ dom \in Types
  /\ cur[c].made
  /\ LET array == Table(dom, host)
         result == IterNthResult(array, cur[c], k)
     IN  /\ cur' = [cur EXCEPT ![c] = [made |-> TRUE,
                                       pos |-> IterNthState(array, cur[c], k).pos,
                                       ended |-> cur[c].ended \/ result.kind = "None"]]
         /\ call' = [op |-> "nth", c |-> c, n |-> IntZero, oc |-> FALSE,
                     result |-> result]
  /\ UNCHANGED <<host, dom, rug, gen>>

\* let c = rug::Integer::fibonacci_iter()
RugFibonacciIter(c) ==
  /\ dom = "rug"
  /\ rug' = [rug EXCEPT ![c] = [made |-> TRUE, it |-> RugIter_new, count |-> 0]]
  /\ call' = [op |-> "fibonacci_iter", c |-> c, n |-> IntZero, oc |-> FALSE,
              result |-> None]
  /\ UNCHANGED <<host, dom, cur, gen>>

\* c.next() of a RugIter (count is the number of calls made on it, which the
\* model bounds)
RugNext(c) ==
  /\ dom = "rug"
  /\ rug[c].made
  /\ rug[c].count < MaxRugIndex
  /\ rug' = [rug EXCEPT ![c] = [made |-> TRUE, it |-> RugNextState(rug[c].it),
                                count |-> rug[c].count + 1]]
  /\ call' = [op |-> "next", c |-> c, n |-> IntZero, oc |-> FALSE,
              result |-> RugNextResult(rug[c].it)]
  /\ UNCHANGED <<host, dom, cur, gen>>

\* The const evaluation of the table of isize or usize starts with ARRAY_SIZE,
\* on a host with either checked_add primitive.
InitGen ==
  /\ InitCommon
  /\ dom \in {"isize", "usize"}
  /\ host \in HostWidths
  /\ \E prim \in Primitives :
       gen = [phase |-> "ARRAY_SIZE", st |-> [GenStart(<<>>) EXCEPT !.prim = prim],
              size |-> 0, writes |-> <<>>]

\* The phase const evaluation is in after a round that left the loop
\* variables st.
PhaseAfter(phase, st) ==
  IF st.fault THEN "error" ELSE IF st.hung THEN "hung" ELSE phase

\* The rounds of a host with the misbehaving primitive are followed to their
\* end on a 16-bit target (2^16 rounds) and for MaxFaultyRounds rounds on the
\* wider targets.
Followed(st) ==
  st.prim = "checked_add" \/ host = 16 \/ st.i < MaxFaultyRounds

\* One round of the loop of ARRAY_SIZE
SizeRound ==
  /\ gen.phase = "ARRAY_SIZE"
  /\ GenRunning(gen.st)
  /\ Followed(gen.st)
  /\ \E st \in {SizeStep(dom, host, gen.st)} :
       gen' = [gen EXCEPT !.st = st, !.phase = PhaseAfter(@, st)]
  /\ UNCHANGED <<host, dom, cur, rug, call>>

\* The loop of ARRAY_SIZE ends: ARRAY_SIZE is result, and the evaluation of
\* ARRAY starts with [0; ARRAY_SIZE].
SizeDone ==
  /\ gen.phase = "ARRAY_SIZE"
  /\ ~GenRunning(gen.st)
  /\ gen' = [phase |-> "ARRAY",
             st |-> [GenStart(Zeros(gen.st.i)) EXCEPT !.prim = gen.st.prim],
             size |-> gen.st.i,
             writes |-> [k \in 1..gen.st.i |-> 0]]
  /\ UNCHANGED <<host, dom, cur, rug, call>>

\* One round of the loop of ARRAY; writes counts the writes to each slot.
FillRound ==
  /\ gen.phase = "ARRAY"
  /\ GenRunning(gen.st)
  /\ Followed(gen.st)
  /\ \E st \in {FillStep(dom, host, gen.st)} :
       gen' = [gen EXCEPT !.st = st, !.phase = PhaseAfter(@, st),
                          !.writes = IF st.fault \/ st.hung THEN @
                                     ELSE [@ EXCEPT ![gen.st.i + 1] = @ + 1]]
  /\ UNCHANGED <<host, dom, cur, rug, call>>

\* The loop of ARRAY ends: ARRAY is result.
FillDone ==
  /\ gen.phase = "ARRAY"
  /\ ~GenRunning(gen.st)
  /\ gen' = [gen EXCEPT !.phase = "done"]
  /\ UNCHANGED <<host, dom, cur, rug, call>>

NextLookup ==
  \/ dom \in Types /\ \E n \in Indices(dom, host), oc \in BOOLEAN : NthFibonacci(n, oc)
  \/ dom = "rug" /\ \E n \in RugIndices(host) : RugNthFibonacci(n)

NextIter ==
  \/ \E c \in Cursors : FibonacciIter(c)
  \/ \E c \in Cursors : IterNext(c)
  \/ \E c \in Cursors, k \in 0..MaxSkip : IterNth(c, k)

NextRug ==
  \/ \E c \in Cursors : RugFibonacciIter(c)
  \/ \E c \in Cursors : RugNext(c)

NextGen == SizeRound \/ SizeDone \/ FillRound \/ FillDone

SpecLookup == InitLookup /\ [][NextLookup]_vars

SpecIter == InitIter /\ [][NextIter]_vars

SpecRug == InitRug /\ [][NextRug]_vars

SpecGen == InitGen /\ [][NextGen]_vars

\* Const evaluation goes on as long as it has a step to take.
SpecGenLive == SpecGen /\ WF_vars(NextGen)

\* ---------------------------------------------------------------------------
\* The Fibonacci numbers themselves, by the recurrence over the unbounded
\* naturals: what the program's results are compared with.
\* ---------------------------------------------------------------------------

\* <<x_0, ..., x_(k-1)>> with x_0 = a, x_1 = b, x_(i+2) = x_i + x_(i+1), k >= 2
RECURSIVE FibFrom(_, _, _)
FibFrom(a, b, k) ==
  IF k = 2 THEN <<a, b>>
  ELSE IF k = 3 THEN <<a, b, NatAdd(a, b)>>
  ELSE LET half == k \div 2
           left == FibFrom(a, b, half)
           a2 == NatAdd(left[half - 1], left[half])
           b2 == NatAdd(left[half], a2)
       IN  left \o FibFrom(a2, b2, k - half)

\* F(0) .. F(299): F(186) is the largest that any of the fixed-width types holds
FibNumbers == FibFrom(NatZero, NatOne, 300)

\* F(i) as an integer
F(i) == Pos(FibNumbers[i + 1])

\* ---------------------------------------------------------------------------
\* Claims.
\* ---------------------------------------------------------------------------

Fits(t, h, x) == InRange(t, h, x)

\* C1: for every fixed-width type, a cursor of fibonacci_iter that has left i
\* elements behind yields F(i) on next when F(i) is representable in the type,
\* and returns None when it is not: the cursor yields exactly the Fibonacci
\* numbers the type holds, in index order, and ends before the first that
\* exceeds the type's maximum.
C1_IterYieldsFibonacci ==
  (dom \in Types /\ call.op = "next") =>
    LET after == cur[call.c].pos
        i == IF call.result.kind = "Some" THEN after - 1 ELSE after
    IN  call.result = (IF Fits(dom, host, F(i)) THEN Some(F(i)) ELSE None)

\* C1 happens: a u128 cursor has yielded F(186) and then returned None.
C1_Witness ==
  /\ dom = "u128"
  /\ call.op = "next"
  /\ call.result.kind = "None"
  /\ cur[call.c].pos = 187

\* The last call was <dom>::nth_fibonacci of a fixed-width type.
IsLookup == dom \in Types /\ call.op = "nth_fibonacci"

TableLen == Len(Table(dom, host))

\* |n| < table length, for the index n of the last call
WithinTable == NatLess(call.n.mag, Nat2(TableLen))

\* C2: for every fixed-width type and every index n with 0 <= n < table
\* length, nth_fibonacci(n) is Some(v) with v the n-th value (from 0) that a
\* fresh cursor of fibonacci_iter yields.
C2_LookupAgreesWithIter ==
  (IsLookup /\ ~call.n.neg /\ WithinTable) =>
    /\ call.result.kind = "Some"
    /\ call.result = IterNthResult(Table(dom, host), fibonacci_iter, Small(call.n.mag))

\* C2 happens: the last index of the u64 table was looked up.
C2_Witness ==
  IsLookup /\ dom = "u64" /\ call.n = IntOfSmall(93) /\ call.result.kind = "Some"

\* C3: for every signed fixed-width type and every n with 1 <= n < table
\* length, nth_fibonacci(-n) is Some: nth_fibonacci(n) itself for odd n, its
\* negation for even n; and nth_fibonacci(0) is Some(0).
C3_NegativeIndexSignRule ==
  /\ (IsLookup /\ Signed(dom) /\ call.n.neg /\ WithinTable) =>
       LET mirror == nth_fibonacci(dom, host, call.oc, IntNeg(call.n))
       IN  /\ mirror.kind = "Some"
           /\ call.result =
                Some(IF NatOdd(call.n.mag) THEN mirror.val ELSE IntNeg(mirror.val))
  /\ (IsLookup /\ Signed(dom) /\ call.n = IntZero) => call.result = Some(IntZero)

\* C3 happens: i64::nth_fibonacci(-92) returned a negative number.
C3_Witness ==
  IsLookup /\ dom = "i64" /\ call.n = IntOfSmall(-92) /\ call.result.kind = "Some"
    /\ call.result.val.neg

\* C4, as claimed: for every fixed-width type and every index n of the type
\* with n >= table length, or n <= -(table length) for a signed type,
\* nth_fibonacci(n) is None.  (The index MIN, whose negation the type does not
\* hold, is left to C6.)
C4_OutOfRangeIsNone ==
  (IsLookup /\ ~WithinTable /\ ~(Signed(dom) /\ call.n = MinOf(dom, host))) =>
    call.result = None

\* C5: nth_fibonacci(L - 1) is Some and nth_fibonacci(L) is None for the table
\* length L of every fixed-width type, and so are nth_fibonacci(-(L - 1)) and
\* nth_fibonacci(-L) of every signed type; i8: nth_fibonacci(11) = Some(89),
\* nth_fibonacci(12) = None; i32: nth_fibonacci(10) = Some(55),
\* nth_fibonacci(50) = None.
C5_Boundary ==
  IsLookup =>
    /\ call.n.mag = Nat2(TableLen - 1) => call.result.kind = "Some"
    /\ call.n.mag = Nat2(TableLen) => call.result = None
    /\ (dom = "i8" /\ call.n = IntOfSmall(11)) => call.result = Some(IntOfSmall(89))
    /\ (dom = "i8" /\ call.n = IntOfSmall(12)) => call.result = None
    /\ (dom = "i32" /\ call.n = IntOfSmall(10)) => call.result = Some(IntOfSmall(55))
    /\ (dom = "i32" /\ call.n = IntOfSmall(50)) => call.result = None

\* C5 happens: i32::nth_fibonacci(50) was called.
C5_Witness ==
  IsLookup /\ dom = "i32" /\ call.n = IntOfSmall(50) /\ call.result = None

\* C6, as claimed: for every signed fixed-width type and every index n of the
\* type, nth_fibonacci(n) ends without an overflow trap, returns a value only
\* for an index within the table, and returns None for n = MIN.
C6_NoTrapNoWrap ==
  (IsLookup /\ Signed(dom)) =>
    /\ call.result.kind # "Panic"
    /\ call.result.kind = "Some" => WithinTable
    /\ call.n = MinOf(dom, host) => call.result = None

\* The last call was rug::Integer::nth_fibonacci.
IsRugLookup == dom = "rug" /\ call.op = "nth_fibonacci"

\* |n| has a usize, for the index n of the last call
HasUsize == NatLess(call.n.mag, Pow2(host))

\* C7, as claimed: for rug::Integer and every negative index n whose magnitude
\* has a usize, nth_fibonacci(n) is F(-n) negated when -n is even and F(-n)
\* itself when -n is odd.
C7_RugNegativeIndex ==
  (IsRugLookup /\ call.n.neg /\ HasUsize) =>
    call.result =
      Some(IF NatOdd(call.n.mag) THEN F(Small(call.n.mag)) ELSE IntNeg(F(Small(call.n.mag))))

\* C8: for rug::Integer, nth_fibonacci(n) is None exactly when |n| has no
\* usize, and for n >= 0 that has one it is Some(F(n)), the n-th value (from
\* 0) of a fresh RugIter.
C8_RugLookup ==
  IsRugLookup =>
    /\ call.result.kind # "Panic"
    /\ call.result.kind = "None" <=> ~HasUsize
    /\ (~call.n.neg /\ HasUsize) => call.result = Some(F(Small(call.n.mag)))

\* C8 happens: rug::Integer::nth_fibonacci(12) returned 144.
C8_Witness ==
  IsRugLookup /\ call.n = IntOfSmall(12) /\ call.result = Some(IntOfSmall(144))

\* C8 happens also where the index has no usize.
C8_WitnessNone ==
  IsRugLookup /\ ~HasUsize /\ call.result = None

\* C9: every call of RugIter::next returns Some, and the k-th call (from 0) on
\* a cursor of fibonacci_iter returns F(k), however far the other cursors have
\* been advanced; so a new cursor starts again at F(0).
C9_RugIterYieldsFibonacci ==
  (dom = "rug" /\ call.op = "next") =>
    call.result = Some(F(rug[call.c].count - 1))

\* C9 happens: a new RugIter returned F(0) while another one had been advanced.
C9_Witness ==
  /\ dom = "rug"
  /\ call.op = "next"
  /\ rug[call.c].count = 1
  /\ call.result = Some(IntZero)
  /\ \E d \in Cursors \ {call.c} : rug[d].count >= 5

\* C10: for every fixed-width type, a cursor that has returned None returns
\* None on every later next and nth; a step of one cursor leaves the other
\* cursors as they are; fibonacci_iter gives a cursor at index 0, and next on a
\* cursor at index i < table length yields table[i] and moves it to i + 1.
C10_ExhaustionTerminal ==
  [][LET c == call'.c
     IN  /\ (call'.op \in {"next", "nth"} /\ cur[c].ended) =>
              (call'.result = None /\ cur'[c].ended)
         /\ call'.op = "fibonacci_iter" => (cur'[c].pos = 0 /\ ~cur'[c].ended)
         /\ (call'.op = "next" /\ cur[c].pos < TableLen) =>
              /\ call'.result = Some(Table(dom, host)[cur[c].pos + 1])
              /\ cur'[c].pos = cur[c].pos + 1
         /\ \A d \in Cursors \ {c} : cur'[d] = cur[d]
    ]_vars

\* C10 happens: one cursor has returned None and stays at the end of the
\* table, and another cursor has yielded table[0] on its first next.
C10_Witness ==
  \E c, d \in Cursors :
    /\ c # d
    /\ cur[c].ended
    /\ cur[c].pos = TableLen
    /\ call.op = "next"
    /\ call.c = d
    /\ cur[d].pos = 1
    /\ call.result = Some(IntZero)


\* The index n of the last call, and its two neighbours.
IndexBefore == IntAdd(call.n, IntOfSmall(-1))

IndexAfter == IntAdd(call.n, IntOfSmall(1))

\* x is a value of the index type of dom (every integer, for rug::Integer).
IsIndex(x) == dom = "rug" \/ InRange(dom, host, x)

\* <dom>::nth_fibonacci(&x) in the build of the last call
LookupAt(x) ==
  IF dom = "rug" THEN rug_nth_fibonacci(host, x)
  ELSE nth_fibonacci(dom, host, call.oc, x)

\* C11, as claimed: for every signed type and for rug::Integer, and every
\* index n for which nth_fibonacci(n - 1), nth_fibonacci(n) and
\* nth_fibonacci(n + 1) are all Some, nth_fibonacci(n - 1) is
\* nth_fibonacci(n + 1) - nth_fibonacci(n), for n <= 0 as well as for n > 0.
C11_Recurrence ==
  (call.op = "nth_fibonacci" /\ (dom = "rug" \/ Signed(dom))
     /\ call.result.kind = "Some"
     /\ IsIndex(IndexBefore) /\ IsIndex(IndexAfter)) =>
    LET before == LookupAt(IndexBefore)
        after == LookupAt(IndexAfter)
    IN  (before.kind = "Some" /\ after.kind = "Some") =>
          before.val = IntAdd(after.val, IntNeg(call.result.val))

\* ---------------------------------------------------------------------------
\* The const generator.
\* ---------------------------------------------------------------------------

\* The host's checked_add always reports success.
Misbehaving == gen.st.prim = "always_some"

\* The table the generator has completed holds F(i) at every index i.
TableIsFibonacci ==
  \A i \in 0..(Len(gen.st.array) - 1) : gen.st.array[i + 1] = F(i)

\* C12: on a host whose checked_add always reports success and returns the
\* wrapped sum, table generation ends in a fatal construction error.  It never
\* completes, so never with a table that holds a value other than the
\* Fibonacci number of its index; it never sits in the `loop {}` arm; and it
\* does not run on without ending: `a` stays Some, so the loop of ARRAY_SIZE
\* goes round until its usize counter overflows, which stops const evaluation
\* with an error (on the targets whose rounds the model follows to the end).
C12_MisbehavingAddIsFatal ==
  /\ [](Misbehaving =>
          /\ gen.phase \in {"ARRAY_SIZE", "error"}
          /\ gen.phase = "done" => TableIsFibonacci
          /\ gen.phase = "ARRAY_SIZE" => gen.st.a.kind = "Some"
          /\ gen.phase = "error" => CounterOverflows(host, gen.st.i))
  /\ Misbehaving ~> (gen.phase = "error" \/ ~Followed(gen.st))

\* C12 happens: on a 16-bit target with the misbehaving primitive, the loop of
\* ARRAY_SIZE has gone round 2^16 - 1 times and const evaluation has stopped
\* with an error.
C12_Witness ==
  Misbehaving /\ host = 16 /\ gen.phase = "error" /\ gen.st.i = 65535

\* The host's checked_add is the real one.
WellBehaved == gen.st.prim = "checked_add"

\* The slots below i have been written once, with the Fibonacci number of
\* their index; the slots from i on have not been written.
WrittenBelow(i) ==
  \A k \in 0..(gen.size - 1) :
    IF k < i THEN gen.writes[k + 1] = 1 /\ gen.st.array[k + 1] = F(k)
    ELSE gen.writes[k + 1] = 0

\* C13: with the real checked_add, on every target width, the loop of ARRAY
\* goes round as often as the loop of ARRAY_SIZE: every write result[i] has
\* i < ARRAY_SIZE (const evaluation never stops with an error), every slot
\* 0 .. ARRAY_SIZE - 1 is written exactly once, with F(i), and the table
\* includes F(ARRAY_SIZE - 1), the last value the type holds, whose sum with
\* F(ARRAY_SIZE - 2) overflows: each loop goes round once more after
\* checked_add has first returned None.
C13_LoopsAgree ==
  WellBehaved =>
    /\ gen.phase \notin {"error", "hung"}
    /\ gen.phase \in {"ARRAY_SIZE", "ARRAY"} =>
         /\ gen.st.a.kind = "Some" => gen.st.a.val = F(gen.st.i)
         /\ (gen.st.a.kind = "Some" /\ gen.st.b.kind = "None") =>
              /\ Fits(dom, host, F(gen.st.i))
              /\ ~Fits(dom, host, IntAdd(F(gen.st.i), F(gen.st.i - 1)))
         /\ gen.st.a.kind = "None" =>
              /\ gen.st.b.kind = "None"
              /\ Fits(dom, host, F(gen.st.i - 1))
              /\ ~Fits(dom, host, F(gen.st.i))
    /\ gen.phase = "ARRAY" =>
         /\ Len(gen.st.array) = gen.size
         /\ gen.st.i <= gen.size
         /\ gen.st.a.kind = "Some" <=> gen.st.i < gen.size
         /\ WrittenBelow(gen.st.i)
    /\ gen.phase = "done" =>
         /\ gen.st.i = gen.size
         /\ WrittenBelow(gen.size)
         /\ gen.st.array[gen.size] = F(gen.size - 1)
         /\ ~Fits(dom, host, IntAdd(F(gen.size - 1), F(gen.size - 2)))
         /\ gen.size = ARRAY_SIZE(dom, host)
         /\ gen.st.array = Table(dom, host)

\* C13 happens: the table of usize of a 64-bit target is complete, with 94
\* slots, the last of them written in the round after checked_add returned
\* None.
C13_Witness ==
  /\ WellBehaved
  /\ dom = "usize"
  /\ host = 64
  /\ gen.phase = "done"
  /\ gen.size = 94
  /\ gen.writes[94] = 1

\* The loop the generator is in, if it is in one.
InLoop == gen.phase \in {"ARRAY_SIZE", "ARRAY"}

\* The step taken is a round of the loop the generator is in.
IsRound == InLoop /\ gen'.phase = gen.phase /\ gen'.st.i = gen.st.i + 1

\* C14: with the real checked_add, on every target width, both loops of the
\* generator end and the table is completed; b becomes None in some round
\* and stays None, a becomes None in the round after that and in no other,
\* and the loop is left in the step after that and in no other; the
\* `loop {}` arm of the loop of ARRAY is never entered.
C14_LoopsTerminate ==
  /\ WellBehaved ~> (gen.phase = "done")
  /\ [](WellBehaved => gen.phase # "hung")
  /\ [][(WellBehaved /\ InLoop) =>
          /\ IsRound =>
               /\ gen.st.a.kind = "Some"
               /\ gen.st.b.kind = "None" => gen'.st.b.kind = "None"
               /\ gen'.st.a.kind = "None" <=> gen.st.b.kind = "None"
          /\ gen'.phase # gen.phase <=> gen.st.a.kind = "None"
          /\ gen'.phase \in {"ARRAY_SIZE", "ARRAY", "done"}
       ]_vars

\* C14 happens: the loop of ARRAY of isize of a 32-bit target has been left,
\* after 47 rounds.
C14_Witness ==
  /\ WellBehaved
  /\ dom = "isize"
  /\ host = 32
  /\ gen.phase = "done"
  /\ gen.st.i = 47
  /\ gen.st.a.kind = "None"

\* ---------------------------------------------------------------------------
\* The negation of a table element.
\* ---------------------------------------------------------------------------

\* Every element of the table of dom is between 0 and MAX, and its negation
\* in the build of the last call is its negative, without a trap.
ElementsNegate ==
  \A i \in 1..TableLen :
    LET v == Table(dom, host)[i]
    IN  /\ ~v.neg
        /\ IntLeq(v, MaxOf(dom, host))
        /\ Negate(dom, host, call.oc, v) = Some(IntNeg(v))

\* C15, as claimed: in the branch of a negative index n of nth_fibonacci of a
\* signed fixed-width type, the negation of a table element never overflows,
\* every element being between 0 and MAX, and a negative value that is
\* returned is -F(|n|).  (For |n| beyond the table, F(|n|) exceeds MAX, so
\* that no value of the type is -F(|n|).)
C15_ElementNegation ==
  (IsLookup /\ Signed(dom) /\ call.n.neg) =>
    /\ ElementsNegate
    /\ (call.result.kind = "Some" /\ call.result.val.neg) =>
         /\ WithinTable
         /\ call.result.val = IntNeg(F(Small(call.n.mag)))

\* ---------------------------------------------------------------------------
\* The state of a RugIter.
\* ---------------------------------------------------------------------------

\* The fields of a RugIter on which next has been called k times.
RugStateAfter(k) ==
  IF k % 2 = 0
  THEN [a |-> F(k), b |-> F(k + 1), a_next |-> TRUE]
  ELSE [a |-> F(k + 1), b |-> F(k), a_next |-> FALSE]

\* C16: a RugIter on which next has been called k times has a_next true,
\* a = F(2j) and b = F(2j + 1) if k = 2j, and a_next false, a = F(2j + 2) and
\* b = F(2j + 1) if k = 2j + 1; every call of next flips a_next and changes
\* exactly one of a and b.
C16_RugIterState ==
  /\ [](\A c \in Cursors : rug[c].made => rug[c].it = RugStateAfter(rug[c].count))
  /\ [][\A c \in Cursors :
          (rug[c].made /\ rug'[c].count = rug[c].count + 1) =>
            /\ rug'[c].it.a_next = ~rug[c].it.a_next
            /\ (rug'[c].it.a # rug[c].it.a) # (rug'[c].it.b # rug[c].it.b)
       ]_vars

\* C16 happens: one RugIter after seven calls of next holds a = F(8) = 21 and
\* b = F(7) = 13 with a_next false, another after four calls holds a = F(4) = 3
\* and b = F(5) = 5 with a_next true.
C16_Witness ==
  \E c, d \in Cursors :
    /\ call.op = "next"
    /\ rug[c].count = 7
    /\ rug[c].it = [a |-> IntOfSmall(21), b |-> IntOfSmall(13), a_next |-> FALSE]
    /\ rug[d].count = 4
    /\ rug[d].it = [a |-> IntOfSmall(3), b |-> IntOfSmall(5), a_next |-> TRUE]
====
